---- MODULE Spec2Model ----
(***************************************************************************)
(* State-machine model of the feathers-redis adapter (RedisAdapter and     *)
(* RedisService): CRUD operations over a redis-om repository with          *)
(* per-record time-to-live.                                                *)
(*                                                                         *)
(* The store is the JSON repository the adapter talks to: a map from key   *)
(* to document plus a map from key to remaining seconds of life.  Every    *)
(* adapter call is one action (a single caller awaiting each call) that    *)
(* leaves its inputs and its result in `last`; the caller takes the result *)
(* in Return before the next call.  The store's clock advances in Tick.    *)
(***************************************************************************)
EXTENDS Integers, Sequences, FiniteSets, TLC

\* ------------------------------------------------------------------ bounds
\* largest time-to-live, in seconds, a caller or the configuration uses
MaxTTL == 2
\* largest number of items in one batch create
MaxBatch == 2

\* ------------------------------------------------------------ value domain
\* the identifiers randomUUID() returns, in the order it returns them
AllKeys == <<"k1", "k2">>

Keys == {AllKeys[i] : i \in 1..Len(AllKeys)}

\* a property that is not present on an object (reads as undefined)
Absent == "<absent>"

\* the empty string: a value that is present and falsy
Empty == ""

\* the null id of patch(null, ...), update(null, ...), remove(null, ...)
Null == "<null>"

\* the service option `id` of the tests; the default is 'entityId'
idField == "uuid"

Fields == {"uuid", "name", "age"}

\* JavaScript truthiness of a field value: !entity[idField]
Truthy(v) == v \notin {Absent, Empty}

\* the object {} : what repository.fetch returns for a key that is not there
EmptyRec == [f \in Fields |-> Absent]

\* a payload or stored document built from its three fields
Rec(u, n, a) == [uuid |-> u, name |-> n, age |-> a]

\* no $select in the query
NoSelect == [on |-> FALSE, fields |-> {}]

\* $select: ['name']
SelectName == [on |-> TRUE, fields |-> {"name"}]

\* no filter in the query (Object.keys(query).length = 0)
NoQuery == [kind |-> "none", field |-> "name", value |-> Absent]

\* the filter {name: 'b'}
QueryNameB == [kind |-> "eq", field |-> "name", value |-> "b"]

\* the list ['a', 'b'] as the value of a condition: equals() takes whatever
\* it is given, and a list reads as its elements joined by commas
ListAB == "a,b"

\* the filter {name: {$in: ['a', 'b']}}
QueryNameIn == [kind |-> "in", field |-> "name", value |-> ListAB]

\* the filter {name: {$nin: ['a', 'b']}}
QueryNameNin == [kind |-> "nin", field |-> "name", value |-> ListAB]

\* $limit is not in the query
NoLimit == -1

\* no $sort in the query
NoSort == [on |-> FALSE, field |-> "name", dir |-> 1]

\* $sort: {f: dir}
SortBy(f, dir) == [on |-> TRUE, field |-> f, dir |-> dir]

\* no pagination: neither the service option nor params.paginate
NoPaginate == [on |-> FALSE, default |-> 0, max |-> 0]

\* paginate: { default: 1, max: 2 }
Paginate == [on |-> TRUE, default |-> 1, max |-> 2]

\* params of a call: query filter, $select and refreshExpiration
Params(q, sel, refresh) == [refresh |-> refresh, query |-> q, select |-> sel]

NoParams == Params(NoQuery, NoSelect, FALSE)

\* the params callers pass
ParamSets ==
    {NoParams,
     Params(QueryNameB, NoSelect, FALSE),
     Params(NoQuery, SelectName, FALSE),
     Params(NoQuery, NoSelect, TRUE)}

\* the params of calls that write nothing: refreshExpiration is not passed
ReadParamSets ==
    {p \in ParamSets : ~p.refresh}
        \cup {Params(QueryNameIn, NoSelect, FALSE), Params(QueryNameNin, NoSelect, FALSE)}

VARIABLES
    store,       \* key -> document, for the keys that exist in Redis
    ttl,         \* key -> remaining seconds, for the keys that have a TTL
    expiration,  \* this.expiration; 0 stands for undefined
    nextId,      \* index in AllKeys of the next randomUUID() result
    last,        \* the call that just completed: inputs, outcome, result
    calls        \* caller -> its call in flight, when calls overlap

vars == <<store, ttl, expiration, nextId, last, calls>>

\* identifiers handed out so far: the ids a caller can know
IdsSeen == {AllKeys[i] : i \in 1..(nextId - 1)}

\* ----------------------------------------------------------- store model
\* restriction of a function to a subset of its domain
Restrict(f, S) == [x \in S |-> f[x]]

\* f with key k set to v (k added to the domain when new)
Put(f, k, v) == [x \in (DOMAIN f) \cup {k} |-> IF x = k THEN v ELSE f[x]]

\* repository.fetch(id): the document, or {} when the key does not exist
Fetch(st, id) == IF id \in DOMAIN st THEN st[id] ELSE EmptyRec

\* Save that merges into the existing document instead of replacing it
SaveMerging(st, id, rec) ==
    [x \in (DOMAIN st) \cup {id} |->
        IF x # id THEN st[x]
        ELSE IF id \in DOMAIN st
             THEN [f \in DOMAIN rec |-> IF rec[f] # "<absent>" THEN rec[f] ELSE st[id][f]]
             ELSE rec]

\* repository.save(id, entity): JSON.SET of the whole document under the key.
\* The key's TTL is a property of the key and is not touched by the write.
Save(st, id, rec) == Put(st, id, rec)

\* repository.remove(id): delete the key (and its TTL with it)
Del(f, id) == Restrict(f, (DOMAIN f) \ {id})

\* repository.expire(key, seconds): EXPIRE sets the remaining life of an
\* existing key to exactly `seconds`; on a missing key it does nothing
StoreExpire(st, t, key, seconds) ==
    IF key \in DOMAIN st THEN Put(t, key, seconds) ELSE t

\* ExpireKey without the object branch: the argument is used as the key as is
ExpireKeyNoExtract(x) == x.id

\* RedisAdapter.expire(key, seconds): an object stands for its identity field
ExpireKey(x) == IF x.isRecord THEN x.rec[idField] ELSE x.id

\* ------------------------------------------------------ field selection
\* Select without the `key !== idField` test: the id field goes too
SelectDropsId(rec, sel) ==
    IF sel.on
    THEN [f \in Fields |-> IF f \in sel.fields THEN rec[f] ELSE Absent]
    ELSE rec

\* the $select loop: delete every key not selected, except the id field
Select(rec, sel) ==
    IF sel.on
    THEN [f \in Fields |-> IF f \in sel.fields \/ f = idField THEN rec[f] ELSE Absent]
    ELSE rec

\* ---------------------------------------------------------------- filters
\* the order of the values the comparison operators compare
Rank(v) == CASE v = "a" -> 1 [] v = "b" -> 2 [] OTHER -> 3

\* one key of a query object, in the order `for (const key in query)` visits
\* them: a field condition {field: value} or {field: {$op: value}}
Cond(f, op, v) == [field |-> f, value |-> v, k |-> "cond", op |-> op, items |-> <<>>]

\* the key $or with its list of sub-queries
OrOf(items) == [field |-> "", value |-> "", k |-> "or", op |-> "", items |-> items]

\* the key $and with its list of sub-queries
AndOf(items) == [field |-> "", value |-> "", k |-> "and", op |-> "", items |-> items]

\* a filter given as the sequence of its keys
TreeQuery(entries) ==
    [kind |-> "tree", field |-> "name", value |-> Absent, entries |-> entries]

\* CondHolds with $ne sent to the generic `[method](value)` call, which for
\* 'not' does not negate the comparison that follows
CondHoldsNeAsEquals(doc, e) ==
    CASE e.op \in {"eq", "ne"} -> doc[e.field] # Absent /\ doc[e.field] = e.value
      [] e.op = "lt"  -> doc[e.field] # Absent /\ Rank(doc[e.field]) < Rank(e.value)
      [] e.op = "lte" -> doc[e.field] # Absent /\ Rank(doc[e.field]) <= Rank(e.value)
      [] e.op = "gt"  -> doc[e.field] # Absent /\ Rank(doc[e.field]) > Rank(e.value)
      [] e.op = "gte" -> doc[e.field] # Absent /\ Rank(doc[e.field]) >= Rank(e.value)

\* where(column).<method>(value) on a document: equals, not.equals and the
\* comparisons METHODS names
CondHolds(doc, e) ==
    CASE e.op = "eq"  -> doc[e.field] # Absent /\ doc[e.field] = e.value
      [] e.op = "ne"  -> ~(doc[e.field] # Absent /\ doc[e.field] = e.value)
      [] e.op = "lt"  -> doc[e.field] # Absent /\ Rank(doc[e.field]) < Rank(e.value)
      [] e.op = "lte" -> doc[e.field] # Absent /\ Rank(doc[e.field]) <= Rank(e.value)
      [] e.op = "gt"  -> doc[e.field] # Absent /\ Rank(doc[e.field]) > Rank(e.value)
      [] e.op = "gte" -> doc[e.field] # Absent /\ Rank(doc[e.field]) >= Rank(e.value)

\* Search.where/and/or: the new clause becomes the root of an empty search,
\* otherwise the root becomes (root AND clause) or (root OR clause).  A search
\* is followed on one document: "U" no root yet, "T"/"F" the root's value
Combine(root, ctor, v) ==
    IF root = "U" THEN v
    ELSE IF ctor = "and"
         THEN (IF root = "T" /\ v = "T" THEN "T" ELSE "F")
         ELSE (IF root = "T" \/ v = "T" THEN "T" ELSE "F")

RECURSIVE RedisQuery(_, _, _, _)
RECURSIVE OrItems(_, _, _, _)
RECURSIVE AndItems(_, _, _, _)

\* redisQuery(search, query) from the i-th key on: a field condition is added
\* with search.where, every item of $or with its own search.or(subSearch),
\* all items of $and in one search.and(subSearch)
RedisQuery(root, query, i, doc) ==
    IF i > Len(query) THEN root
    ELSE LET e == query[i]
             next == CASE e.k = "cond" ->
                            Combine(root, "and", IF CondHolds(doc, e) THEN "T" ELSE "F")
                       [] e.k = "or"  -> OrItems(root, e.items, 1, doc)
                       [] e.k = "and" ->
                            Combine(root, "and", AndItems("U", e.items, 1, doc))
         IN  RedisQuery(next, query, i + 1, doc)

\* value.forEach(item => search.or(subSearch => redisQuery(subSearch, item)))
OrItems(root, items, j, doc) ==
    IF j > Len(items) THEN root
    ELSE OrItems(Combine(root, "or", RedisQuery("U", items[j], 1, doc)), items, j + 1, doc)

\* value.forEach(item => redisQuery(subSearch, item)) on the one sub-search
AndItems(sub, items, j, doc) ==
    IF j > Len(items) THEN sub
    ELSE AndItems(RedisQuery(sub, items[j], 1, doc), items, j + 1, doc)

\* one translated condition evaluated on a document.  METHODS maps $in and
\* $nin to '', which is falsy, so both take the branch of a plain value:
\* where(column).equals(value)
Matches(rec, q) ==
    CASE q.kind = "none" -> TRUE
      [] q.kind = "eq"   -> rec[q.field] # Absent /\ rec[q.field] = q.value
      [] q.kind \in {"in", "nin"} -> rec[q.field] # Absent /\ rec[q.field] = q.value
      [] q.kind = "tree" -> RedisQuery("U", q.entries, 1, rec) # "F"

\* WithId without the generated identity: the document is the bare payload
WithIdDropped(uuid, d) == d

\* {[idField]: uuid, ...item}: the payload's own identity field wins
WithId(uuid, d) ==
    [f \in Fields |-> IF f = idField /\ d[f] = Absent THEN uuid ELSE d[f]]

\* Object.assign(entity, data): own properties of data overwrite
Assign(entity, d) ==
    [f \in Fields |-> IF d[f] # Absent THEN d[f] ELSE entity[f]]

\* ------------------------------------------------------------------- get
\* The outcomes of _get(id, params): with a filter, any document the search
\* returns first among those matching the filter and idField = id; without,
\* the fetched document unless its identity field is missing or falsy.
\* Every failure is NotFound.
GetOutcomes(st, id, q, sel) ==
    IF q.kind # "none"
    THEN LET hits == {k \in DOMAIN st : Matches(st[k], q) /\ st[k][idField] = id}
         IN  IF hits = {}
             THEN {[rec |-> EmptyRec, key |-> id, status |-> "NotFound"]}
             ELSE {[rec |-> Select(st[k], sel), key |-> k, status |-> "ok"] : k \in hits}
    ELSE IF Truthy(Fetch(st, id)[idField])
         THEN {[rec |-> Select(Fetch(st, id), sel), key |-> id, status |-> "ok"]}
         ELSE {[rec |-> EmptyRec, key |-> id, status |-> "NotFound"]}

\* get(id) with no filter and no $select, which has one outcome
GetPlain(st, id) == CHOOSE o \in GetOutcomes(st, id, NoQuery, NoSelect) : TRUE

\* ------------------------------------------------------------ call record
\* no error was thrown
NoError == [name |-> "", class |-> "none", message |-> ""]

\* what the caller of the last call passed and got back; `before` is the
\* document the call found under the key it then wrote, `sent` the requests
\* a find sent to the store
Call(op, id, data, p, status, ret) ==
    [id |-> id, op |-> op, status |-> status, data |-> data, ret |-> ret,
     params |-> p, batch |-> <<>>, rets |-> <<>>, secs |-> 0, byRecord |-> FALSE,
     limit |-> NoLimit, skip |-> 0, paginate |-> NoPaginate, envelope |-> FALSE,
     total |-> 0, before |-> EmptyRec, fault |-> "none", allowed |-> TRUE,
     sort |-> NoSort, requested |-> NoLimit, sent |-> {}, error |-> NoError]

\* what can go wrong at the first request of a call (the lookup, or the save
\* of create): nothing, the query layer rejecting the filter or the document
\* (a RedisOmError), the store or connection failing
Faults == {"none", "query", "store"}

\* the store failing at the write that follows a successful lookup
WriteFaults == {"write"}

\* the store failing at the EXPIRE that follows the save of create
TtlFaults == {"ttl"}

\* the error a fault raises: a RedisOmError from the query layer, any other
\* Error from the store client
Raised(fault) ==
    IF fault = "query"
    THEN [name |-> "n", class |-> "RedisOmError", message |-> "m"]
    ELSE [name |-> "e", class |-> "Error", message |-> "s"]

\* errorHandler(error): a GeneralError carrying the name and the message of
\* the error; an error without a name is thrown as it is
ErrorHandler(error) ==
    IF error.name # ""
    THEN [name |-> error.name, class |-> "GeneralError", message |-> error.message]
    ELSE error

\* the catch block of the handlers and of redisQuery: a RedisOmError goes
\* through errorHandler, anything else is thrown again as it is
Rethrow(error) ==
    IF error.class = "RedisOmError" THEN ErrorHandler(error) ELSE error

\* the result of a call that threw: a failure while the filter is built
\* passes the catch of redisQuery and then the catch of the handler
Thrown(op, id, p, fault) ==
    LET error == Rethrow(Rethrow(Raised(fault)))
    IN  [Call(op, id, EmptyRec, p,
              IF error.class = "Error" THEN "StoreError" ELSE error.class, EmptyRec)
            EXCEPT !.fault = fault, !.error = error]

\* the values of the option `expiration`: not set, or a number of seconds
Expirations == {0, MaxTTL}

\* the callers whose calls may overlap
Callers == {"c1", "c2"}

\* a caller that has not called yet
NotCalling ==
    [id |-> Null, key |-> Null, op |-> "none", entity |-> EmptyRec, status |-> "none",
     data |-> EmptyRec, batch |-> <<>>, pc |-> "idle", first |-> 0, pending |-> {},
     failed |-> {}]

\* no call has a result pending: the caller may start the next call
Idle == Call("idle", Null, EmptyRec, NoParams, "ok", EmptyRec)

\* full payloads of create and update: with or without an identity value
Payloads ==
    {Rec(u, "a", Absent) : u \in IdsSeen \cup {Absent}}
        \cup {Rec(u, "b", "a") : u \in IdsSeen \cup {Absent}}

\* partial payloads of patch
PatchPayloads ==
    {Rec(u, "b", Absent) : u \in IdsSeen \cup {Absent}}
        \cup {Rec(u, Absent, "a") : u \in IdsSeen \cup {Absent}}

Init ==
    /\ store = << >>
    /\ ttl = << >>
    /\ expiration \in Expirations
    /\ nextId = 1
    /\ last = Idle
    /\ calls = [c \in Callers |-> NotCalling]

\* ---------------------------------------------------------------- create
\* Create that falls back to a built-in TTL when none is configured
CreateFallbackTtl(d, p, fault) ==
    /\ last = Idle
    /\ UNCHANGED calls
    /\ nextId <= Len(AllKeys)
    /\ fault = "ttl" => expiration # 0
    /\ LET uuid   == AllKeys[nextId]
           rec    == WithId(uuid, d)
           st1    == Save(store, uuid, rec)
           entity == Select(rec, p.select)
           target == ExpireKey([id |-> Null, rec |-> entity, isRecord |-> TRUE])
       IN  IF fault \in {"query", "store"}
           THEN /\ last' = [Thrown("create", Null, p, fault) EXCEPT !.data = d]
                /\ UNCHANGED <<store, ttl, nextId>>
           ELSE IF fault = "ttl"
           THEN /\ store' = st1
                /\ nextId' = nextId + 1
                /\ last' = [Thrown("create", uuid, p, fault)
                               EXCEPT !.data = d, !.secs = expiration]
                /\ UNCHANGED ttl
           ELSE /\ store' = st1
                /\ ttl' = StoreExpire(st1, ttl, target,
                                      IF expiration # 0 THEN expiration ELSE MaxTTL)
                /\ nextId' = nextId + 1
                /\ last' = [Call("create", uuid, d, p, "ok", entity)
                               EXCEPT !.secs = expiration]
    /\ UNCHANGED expiration

\* Create that deletes the record it wrote when the TTL cannot be applied
CreateUndoesOnTtlFailure(d, p, fault) ==
    /\ last = Idle
    /\ UNCHANGED calls
    /\ nextId <= Len(AllKeys)
    /\ fault = "ttl" => expiration # 0
    /\ LET uuid   == AllKeys[nextId]
           rec    == WithId(uuid, d)
           st1    == Save(store, uuid, rec)
           entity == Select(rec, p.select)
           target == ExpireKey([id |-> Null, rec |-> entity, isRecord |-> TRUE])
       IN  IF fault \in {"query", "store"}
           THEN /\ last' = [Thrown("create", Null, p, fault) EXCEPT !.data = d]
                /\ UNCHANGED <<store, ttl, nextId>>
           ELSE IF fault = "ttl"
           THEN /\ store' = Del(st1, uuid)
                /\ nextId' = nextId + 1
                /\ last' = [Thrown("create", uuid, p, fault)
                               EXCEPT !.data = d, !.secs = expiration]
                /\ UNCHANGED ttl
           ELSE /\ store' = st1
                /\ ttl' = IF expiration # 0
                          THEN StoreExpire(st1, ttl, target, expiration)
                          ELSE ttl
                /\ nextId' = nextId + 1
                /\ last' = [Call("create", uuid, d, p, "ok", entity)
                               EXCEPT !.secs = expiration]
    /\ UNCHANGED expiration

\* create(data, params) with a single record.  A failure of the save leaves
\* nothing behind (the identifier drawn for it was never used); a failure of
\* the EXPIRE that follows is thrown after the record was written
Create(d, p, fault) ==
    /\ last = Idle
    /\ UNCHANGED calls
    /\ nextId <= Len(AllKeys)
    /\ fault = "ttl" => expiration # 0
    /\ LET uuid   == AllKeys[nextId]
           rec    == WithId(uuid, d)
           st1    == Save(store, uuid, rec)
           entity == Select(rec, p.select)
           target == ExpireKey([id |-> Null, rec |-> entity, isRecord |-> TRUE])
       IN  IF fault \in {"query", "store"}
           THEN /\ last' = [Thrown("create", Null, p, fault) EXCEPT !.data = d]
                /\ UNCHANGED <<store, ttl, nextId>>
           ELSE IF fault = "ttl"
           THEN /\ store' = st1
                /\ nextId' = nextId + 1
                /\ last' = [Thrown("create", uuid, p, fault)
                               EXCEPT !.data = d, !.secs = expiration]
                /\ UNCHANGED ttl
           ELSE /\ store' = st1
                /\ ttl' = IF expiration # 0
                          THEN StoreExpire(st1, ttl, target, expiration)
                          ELSE ttl
                /\ nextId' = nextId + 1
                /\ last' = [Call("create", uuid, d, p, "ok", entity)
                               EXCEPT !.secs = expiration]
    /\ UNCHANGED expiration

\* ------------------------------------------------------------------ get
\* Get whose catch block lets the error it caught through to the caller
GetRethrows(id, p, fault) ==
    /\ last = Idle
    /\ UNCHANGED calls
    /\ fault = "query" => p.query.kind # "none"
    /\ IF fault # "none"
       THEN last' = [Call("get", id, EmptyRec, p,
                          IF fault = "query" THEN "GeneralError" ELSE "StoreError",
                          EmptyRec)
                       EXCEPT !.fault = fault]
       ELSE \E o \in GetOutcomes(store, id, p.query, p.select) :
               last' = Call("get", id, EmptyRec, p, o.status, o.rec)
    /\ UNCHANGED <<store, ttl, expiration, nextId>>

\* Get that writes the entity it stripped for $select back under its key
GetWritesSelection(id, p, fault) ==
    /\ last = Idle
    /\ UNCHANGED calls
    /\ fault = "query" => p.query.kind # "none"
    /\ IF fault # "none"
       THEN /\ last' = [Call("get", id, EmptyRec, p, "NotFound", EmptyRec)
                          EXCEPT !.fault = fault]
            /\ UNCHANGED store
       ELSE \E o \in GetOutcomes(store, id, p.query, p.select) :
               /\ last' = Call("get", id, EmptyRec, p, o.status, o.rec)
               /\ store' = IF o.status = "ok" THEN Save(store, o.key, o.rec) ELSE store
    /\ UNCHANGED <<ttl, expiration, nextId>>

\* get(id, params): the whole lookup runs in a try block whose catch throws
\* NotFound for whatever was thrown (the filter is only built when non-empty)
Get(id, p, fault) ==
    /\ last = Idle
    /\ UNCHANGED calls
    /\ fault = "query" => p.query.kind # "none"
    /\ IF fault # "none"
       THEN last' = [Call("get", id, EmptyRec, p, "NotFound", EmptyRec)
                       EXCEPT !.fault = fault]
       ELSE \E o \in GetOutcomes(store, id, p.query, p.select) :
               last' = Call("get", id, EmptyRec, p, o.status, o.rec)
    /\ UNCHANGED <<store, ttl, expiration, nextId>>

\* ----------------------------------------------------------------- find
Min(a, b) == IF a < b THEN a ELSE b

\* getLimit(_limit, paginate): under pagination the requested limit, or the
\* default when none is requested, capped by max; otherwise the limit as given
GetLimit(limit, pg) ==
    IF pg.on /\ (pg.default # 0 \/ pg.max # 0)
    THEN Min(IF limit # NoLimit THEN limit ELSE pg.default, pg.max)
    ELSE limit

\* the keys in the order the index returns their documents
RECURSIVE KeysInOrder(_, _)
KeysInOrder(st, i) ==
    IF i > Len(AllKeys) THEN <<>>
    ELSE (IF AllKeys[i] \in DOMAIN st THEN <<AllKeys[i]>> ELSE <<>>) \o KeysInOrder(st, i + 1)

\* search.return.all(): the documents matching the translated filter
SearchAll(st, q) ==
    LET ks == KeysInOrder(st, 1)
        hit == SelectSeq(ks, LAMBDA k : Matches(st[k], q))
    IN  [i \in 1..Len(hit) |-> st[hit[i]]]

\* InOrder that sorts ascending whatever the direction
InOrderAscending(a, b, sort) ==
    Rank(a[sort.field]) <= Rank(b[sort.field])

\* sortBy(field, 'ASC' | 'DESC'): a may come before b
InOrder(a, b, sort) ==
    IF sort.dir = 1
    THEN Rank(a[sort.field]) <= Rank(b[sort.field])
    ELSE Rank(a[sort.field]) >= Rank(b[sort.field])

\* the orders in which the store may return the matching documents: index
\* order without $sort, any order sorted by the field with it (documents
\* with equal values come in an order the store chooses)
SearchResults(st, q, sort) ==
    LET all == SearchAll(st, q)
        n == Len(all)
        perms == {f \in [1..n -> 1..n] : \A i, j \in 1..n : i # j => f[i] # f[j]}
    IN  IF ~sort.on THEN {all}
        ELSE {[i \in 1..n |-> all[f[i]]] :
                f \in {g \in perms : \A i, j \in 1..n :
                                        i < j => InOrder(all[g[i]], all[g[j]], sort)}}

\* search.page(offset, count): at most count documents starting at offset
Page(all, offset, count) ==
    SubSeq(all, offset + 1, Min(Len(all), offset + count))

\* Find that takes any pagination option as active, with or without a default
FindIgnoresDefault(p, limit, skip, pg, sort, fault) ==
    /\ last = Idle
    /\ UNCHANGED calls
    /\ fault = "query" => p.query.kind # "none"
    /\ LET lim == GetLimit(limit, pg)
           paginationDisabled == ~pg.on
           has(l) == l # NoLimit /\ l # 0
           requests ==
               IF ~paginationDisabled THEN {"page", "count"}
               ELSE IF has(lim) THEN {"page"}
               ELSE IF skip # 0 THEN {"count", "page"}
               ELSE IF lim = 0 THEN {}
               ELSE {"all"}
           found(r) == [r EXCEPT !.limit = limit, !.skip = skip, !.paginate = pg,
                                 !.sort = sort, !.requested = limit]
       IN  /\ fault = "store" => requests # {}
           /\ IF fault # "none"
              THEN last' = [found(Thrown("find", Null, p, fault))
                              EXCEPT !.sent = IF fault = "store" THEN requests ELSE {}]
              ELSE \E all \in SearchResults(store, p.query, sort) :
                      LET results ==
                              IF has(lim) /\ skip = 0 THEN Page(all, 0, lim)
                              ELSE IF has(lim) /\ skip # 0 THEN Page(all, skip, lim)
                              ELSE IF ~has(lim) /\ skip # 0 THEN Page(all, skip, Len(all))
                              ELSE IF lim = 0 THEN <<>>
                              ELSE all
                          ok == found(Call("find", Null, EmptyRec, p, "ok", EmptyRec))
                      IN  IF paginationDisabled
                          THEN last' = [ok EXCEPT
                                          !.rets = [i \in 1..Len(results) |->
                                                       Select(results[i], p.select)],
                                          !.sent = requests]
                          ELSE last' = [ok EXCEPT
                                          !.rets = Page(all, skip, lim),
                                          !.sent = requests,
                                          !.envelope = TRUE,
                                          !.total = Len(all),
                                          !.limit = lim]
    /\ UNCHANGED <<store, ttl, expiration, nextId>>

\* find(params): limit, skip and sort as in the query, pg the pagination in
\* force.  The filter is built and the requests are sent inside one try block
Find(p, limit, skip, pg, sort, fault) ==
    /\ last = Idle
    /\ UNCHANGED calls
    /\ fault = "query" => p.query.kind # "none"
    /\ LET lim == GetLimit(limit, pg)
           paginationDisabled == ~pg.on \/ pg.default = 0
           has(l) == l # NoLimit /\ l # 0
           requests ==
               IF ~paginationDisabled THEN {"page", "count"}
               ELSE IF has(lim) THEN {"page"}
               ELSE IF skip # 0 THEN {"count", "page"}
               ELSE IF lim = 0 THEN {}
               ELSE {"all"}
           found(r) == [r EXCEPT !.limit = limit, !.skip = skip, !.paginate = pg,
                                 !.sort = sort, !.requested = limit]
       IN  /\ fault = "store" => requests # {}
           /\ IF fault # "none"
              THEN last' = [found(Thrown("find", Null, p, fault))
                              EXCEPT !.sent = IF fault = "store" THEN requests ELSE {}]
              ELSE \E all \in SearchResults(store, p.query, sort) :
                      LET results ==
                              IF has(lim) /\ skip = 0 THEN Page(all, 0, lim)
                              ELSE IF has(lim) /\ skip # 0 THEN Page(all, skip, lim)
                              ELSE IF ~has(lim) /\ skip # 0 THEN Page(all, skip, Len(all))
                              ELSE IF lim = 0 THEN <<>>
                              ELSE all
                          ok == found(Call("find", Null, EmptyRec, p, "ok", EmptyRec))
                      IN  IF paginationDisabled
                          THEN last' = [ok EXCEPT
                                          !.rets = [i \in 1..Len(results) |->
                                                       Select(results[i], p.select)],
                                          !.sent = requests]
                          ELSE last' = [ok EXCEPT
                                          !.rets = Page(all, skip, lim),
                                          !.sent = requests,
                                          !.envelope = TRUE,
                                          !.total = Len(all),
                                          !.limit = lim]
    /\ UNCHANGED <<store, ttl, expiration, nextId>>

\* --------------------------------------------------------- batch create
\* the items of a batch create
BatchItems == {Rec(Absent, "a", Absent), Rec(Absent, "b", "a")}

Batches == UNION {[1..n -> BatchItems] : n \in 1..MaxBatch}

\* the documents a batch writes: item i under the i-th fresh identifier
BatchDocs(ds, first) == [i \in 1..Len(ds) |-> WithId(AllKeys[first + i - 1], ds[i])]

\* the store after saving docs[1..n] under their fresh identifiers
RECURSIVE SaveAll(_, _, _, _)
SaveAll(st, docs, first, n) ==
    IF n = 0 THEN st
    ELSE Save(SaveAll(st, docs, first, n - 1), AllKeys[first + n - 1], docs[n])

\* CreateMulti without the allowsMulti test: every list is written
CreateMultiNoCheck(ds, p, allowed) ==
    /\ last = Idle
    /\ UNCHANGED calls
    /\ nextId + Len(ds) - 1 <= Len(AllKeys)
    /\ LET docs == BatchDocs(ds, nextId)
       IN  /\ store' = SaveAll(store, docs, nextId, Len(ds))
           /\ last' = [Call("createMulti", AllKeys[nextId], EmptyRec, p, "ok", EmptyRec)
                          EXCEPT !.batch = ds,
                                 !.rets = [i \in 1..Len(ds) |-> Select(docs[i], p.select)],
                                 !.secs = expiration,
                                 !.allowed = allowed]
    /\ nextId' = nextId + Len(ds)
    /\ UNCHANGED <<ttl, expiration>>

\* create(data[], params): rejected unless allowsMulti('create', params);
\* every item is saved under its own randomUUID()
CreateMulti(ds, p, allowed) ==
    /\ last = Idle
    /\ UNCHANGED calls
    /\ IF ~allowed
       THEN /\ last' = [Call("createMulti", Null, EmptyRec, p, "MethodNotAllowed", EmptyRec)
                           EXCEPT !.batch = ds, !.allowed = FALSE]
            /\ UNCHANGED <<store, ttl, expiration, nextId>>
       ELSE /\ nextId + Len(ds) - 1 <= Len(AllKeys)
            /\ LET docs == BatchDocs(ds, nextId)
               IN  /\ store' = SaveAll(store, docs, nextId, Len(ds))
                   /\ last' = [Call("createMulti", AllKeys[nextId], EmptyRec, p, "ok", EmptyRec)
                                  EXCEPT !.batch = ds,
                                         !.rets = [i \in 1..Len(ds) |-> Select(docs[i], p.select)],
                                         !.secs = expiration]
            /\ nextId' = nextId + Len(ds)
            /\ UNCHANGED <<ttl, expiration>>

\* --------------------------------------------------------------- update
\* the existence check of _update: the search when there is a filter, the
\* fetch and identity-field test when there is none
UpdateFound(st, id, q) ==
    IF q.kind # "none"
    THEN \E k \in DOMAIN st : Matches(st[k], q) /\ st[k][idField] = id
    ELSE Truthy(Fetch(st, id)[idField])

\* Update that re-applies a TTL on every successful write, asked or not
UpdateAlwaysRefreshes(id, d, p, fault) ==
    /\ last = Idle
    /\ UNCHANGED calls
    /\ id = Null => fault = "none"
    /\ fault = "query" => p.query.kind # "none"
    /\ fault = "write" => UpdateFound(store, id, p.query)
    /\ IF id = Null
       THEN /\ last' = Call("update", id, EmptyRec, p, "BadRequest", EmptyRec)
            /\ UNCHANGED <<store, ttl>>
       ELSE IF fault # "none"
       THEN /\ last' = Thrown("update", id, p, fault)
            /\ UNCHANGED <<store, ttl>>
       ELSE IF ~UpdateFound(store, id, p.query)
       THEN /\ last' = Call("update", id, EmptyRec, p, "NotFound", EmptyRec)
            /\ UNCHANGED <<store, ttl>>
       ELSE /\ store' = Save(store, id, d)
            /\ ttl' = StoreExpire(Save(store, id, d), ttl, id, MaxTTL)
            /\ last' = [Call("update", id, d, p, "ok", Select(d, p.select))
                           EXCEPT !.before = Fetch(store, id)]
    /\ UNCHANGED <<expiration, nextId>>

\* update(id, data, params): the lookup is written out in the handler, whose
\* catch passes on what the lookup or the save threw
Update(id, d, p, fault) ==
    /\ last = Idle
    /\ UNCHANGED calls
    /\ id = Null => fault = "none"
    /\ fault = "query" => p.query.kind # "none"
    /\ fault = "write" => UpdateFound(store, id, p.query)
    /\ IF id = Null
       THEN /\ last' = Call("update", id, EmptyRec, p, "BadRequest", EmptyRec)
            /\ UNCHANGED <<store, ttl>>
       ELSE IF fault # "none"
       THEN /\ last' = Thrown("update", id, p, fault)
            /\ UNCHANGED <<store, ttl>>
       ELSE IF ~UpdateFound(store, id, p.query)
       THEN /\ last' = Call("update", id, EmptyRec, p, "NotFound", EmptyRec)
            /\ UNCHANGED <<store, ttl>>
       ELSE /\ store' = Save(store, id, d)
            /\ ttl' = ttl
            /\ last' = [Call("update", id, d, p, "ok", Select(d, p.select))
                           EXCEPT !.before = Fetch(store, id)]
    /\ UNCHANGED <<expiration, nextId>>

\* ---------------------------------------------------------------- patch
\* patch(id, data, params): the lookup is _get, which throws NotFound for
\* whatever went wrong inside it; then Object.assign and save
Patch(id, d, p, fault) ==
    /\ last = Idle
    /\ UNCHANGED calls
    /\ id = Null => fault = "none"
    /\ fault = "query" => p.query.kind # "none"
    /\ IF id = Null
       THEN /\ last' = Call("patch", id, EmptyRec, p, "MethodNotAllowed", EmptyRec)
            /\ UNCHANGED store
       ELSE IF fault \in {"query", "store"}
       THEN /\ last' = [Call("patch", id, EmptyRec, p, "NotFound", EmptyRec)
                           EXCEPT !.fault = fault]
            /\ UNCHANGED store
       ELSE \E o \in GetOutcomes(store, id, p.query, p.select) :
               IF o.status # "ok"
               THEN /\ fault = "none"
                    /\ last' = Call("patch", id, EmptyRec, p, "NotFound", EmptyRec)
                    /\ UNCHANGED store
               ELSE IF fault = "write"
               THEN /\ last' = Thrown("patch", id, p, fault)
                    /\ UNCHANGED store
               ELSE LET entity == Assign(o.rec, d)
                    IN  /\ store' = Save(store, o.key, entity)
                        /\ last' = [Call("patch", id, d, p, "ok", entity)
                                       EXCEPT !.before = store[o.key]]
    /\ UNCHANGED <<ttl, expiration, nextId>>

\* --------------------------------------------------------------- remove
\* Remove without the null-id check: the id goes straight to the lookup
RemoveNoNullCheck(id, p, fault) ==
    /\ last = Idle
    /\ UNCHANGED calls
    /\ fault = "query" => p.query.kind # "none"
    /\ IF fault \in {"query", "store"}
       THEN /\ last' = [Call("remove", id, EmptyRec, p, "NotFound", EmptyRec)
                           EXCEPT !.fault = fault]
            /\ UNCHANGED <<store, ttl>>
       ELSE \E o \in GetOutcomes(store, id, p.query, p.select) :
               IF o.status # "ok"
               THEN /\ fault = "none"
                    /\ last' = Call("remove", id, EmptyRec, p, "NotFound", EmptyRec)
                    /\ UNCHANGED <<store, ttl>>
               ELSE IF fault = "write"
               THEN /\ last' = Thrown("remove", id, p, fault)
                    /\ UNCHANGED <<store, ttl>>
               ELSE /\ store' = Del(store, id)
                    /\ ttl' = Del(ttl, id)
                    /\ last' = Call("remove", id, EmptyRec, p, "ok", o.rec)
    /\ UNCHANGED <<expiration, nextId>>

\* remove(id, params): the lookup is _get; then repository.remove(id)
Remove(id, p, fault) ==
    /\ last = Idle
    /\ UNCHANGED calls
    /\ id = Null => fault = "none"
    /\ fault = "query" => p.query.kind # "none"
    /\ IF id = Null
       THEN /\ last' = Call("remove", id, EmptyRec, p, "MethodNotAllowed", EmptyRec)
            /\ UNCHANGED <<store, ttl>>
       ELSE IF fault \in {"query", "store"}
       THEN /\ last' = [Call("remove", id, EmptyRec, p, "NotFound", EmptyRec)
                           EXCEPT !.fault = fault]
            /\ UNCHANGED <<store, ttl>>
       ELSE \E o \in GetOutcomes(store, id, p.query, p.select) :
               IF o.status # "ok"
               THEN /\ fault = "none"
                    /\ last' = Call("remove", id, EmptyRec, p, "NotFound", EmptyRec)
                    /\ UNCHANGED <<store, ttl>>
               ELSE IF fault = "write"
               THEN /\ last' = Thrown("remove", id, p, fault)
                    /\ UNCHANGED <<store, ttl>>
               ELSE /\ store' = Del(store, id)
                    /\ ttl' = Del(ttl, id)
                    /\ last' = Call("remove", id, EmptyRec, p, "ok", o.rec)
    /\ UNCHANGED <<expiration, nextId>>

\* --------------------------------------------------------------- expire
\* what callers pass to expire: an id they know or a record they hold
ExpireArgs ==
    {[id |-> k, rec |-> EmptyRec, isRecord |-> FALSE] : k \in IdsSeen}
        \cup {[id |-> Null, rec |-> store[k], isRecord |-> TRUE] : k \in DOMAIN store}

\* expire(key, seconds)
Expire(x, seconds) ==
    /\ last = Idle
    /\ UNCHANGED calls
    /\ ttl' = StoreExpire(store, ttl, ExpireKey(x), seconds)
    /\ last' = [Call("expire", x.id, x.rec, NoParams, "ok", EmptyRec)
                   EXCEPT !.secs = seconds, !.byRecord = x.isRecord]
    /\ UNCHANGED <<store, expiration, nextId>>

\* service.expiration = n : the default TTL is a public, assignable field
SetExpiration(n) ==
    /\ last = Idle
    /\ UNCHANGED calls
    /\ n # expiration
    /\ expiration' = n
    /\ UNCHANGED <<store, ttl, nextId, last>>

\* the caller takes the result of the call that completed
Return ==
    /\ last # Idle
    /\ UNCHANGED calls
    /\ last' = Idle
    /\ UNCHANGED <<store, ttl, expiration, nextId>>

\* ------------------------------------------------------------- the clock
\* one second passes: every TTL counts down and the keys that reach zero
\* are deleted by the store
Tick ==
    /\ last = Idle
    /\ UNCHANGED calls
    /\ LET dead == {k \in DOMAIN ttl : ttl[k] = 1}
       IN  /\ store' = Restrict(store, (DOMAIN store) \ dead)
           /\ ttl' = [k \in (DOMAIN ttl) \ dead |-> ttl[k] - 1]
    /\ UNCHANGED <<expiration, nextId, last>>

Next ==
    \/ \E d \in Payloads, p \in ParamSets : Create(d, p, "none")
    \/ \E ds \in Batches, p \in ParamSets, allowed \in BOOLEAN : CreateMulti(ds, p, allowed)
    \/ \E id \in IdsSeen, p \in ReadParamSets, fault \in Faults : Get(id, p, fault)
    \/ \E p \in ReadParamSets, limit \in {NoLimit, 0, 1}, skip \in {0, 1},
          pg \in {NoPaginate, Paginate} : Find(p, limit, skip, pg, NoSort, "none")
    \/ \E id \in IdsSeen \cup {Null}, d \in Payloads, p \in ParamSets : Update(id, d, p, "none")
    \/ \E id \in IdsSeen \cup {Null}, d \in PatchPayloads, p \in ParamSets : Patch(id, d, p, "none")
    \/ \E id \in IdsSeen \cup {Null}, p \in ParamSets : Remove(id, p, "none")
    \/ \E x \in ExpireArgs, seconds \in 1..MaxTTL : Expire(x, seconds)
    \/ \E n \in Expirations : SetExpiration(n)
    \/ Tick
    \/ Return

Spec == Init /\ [][Next]_vars

\* ======================================================================
\* Queries on a populated store
\* ======================================================================
\* paginate: { max: 2 } : a pagination option without a default page size
PaginateMaxOnly == [on |-> TRUE, default |-> 0, max |-> 2]

\* the people of the fixture: every record was created by the adapter, so
\* its identity field is its key
People ==
    UNION {[S -> {"a", "b"} \X {"a", "b"}] : S \in SUBSET Keys}

Fixture(f) == [k \in DOMAIN f |-> Rec(k, f[k][1], f[k][2])]

\* single conditions
NameIs(v) == <<Cond("name", "eq", v)>>

AgeIs(v) == <<Cond("age", "eq", v)>>

\* the filters of the find calls, as the sequences of their keys
Filters ==
    {<<>>,
     NameIs("a"),
     <<Cond("name", "eq", "a"), Cond("age", "eq", "b")>>,
     <<Cond("name", "ne", "a")>>,
     <<Cond("age", "ne", "b")>>,
     <<Cond("age", "lt", "b")>>,
     <<Cond("age", "lte", "a")>>,
     <<Cond("age", "gt", "a")>>,
     <<Cond("age", "gte", "b")>>,
     <<Cond("age", "gte", "a"), Cond("age", "lt", "b")>>,
     <<OrOf(<<NameIs("a"), AgeIs("b")>>)>>,
     <<OrOf(<<NameIs("a"), AgeIs("b")>>), Cond("age", "eq", "a")>>,
     <<Cond("name", "eq", "b"), OrOf(<<NameIs("a"), AgeIs("a")>>)>>,
     <<AndOf(<<NameIs("a"), AgeIs("b")>>)>>,
     <<AndOf(<< <<OrOf(<<NameIs("a"), AgeIs("b")>>)>> >>)>>,
     <<AndOf(<<NameIs("b"), <<OrOf(<<NameIs("a"), AgeIs("a")>>)>> >>)>>}

\* the $sort directives: none, ascending, descending (-1 or any other value)
Sorts == {NoSort, SortBy("age", 1), SortBy("age", -1), SortBy("name", 0)}

InitQ ==
    /\ \E f \in People : store = Fixture(f)
    /\ ttl = << >>
    /\ expiration = 0
    /\ nextId = Len(AllKeys) + 1
    /\ last = Idle
    /\ calls = [c \in Callers |-> NotCalling]

NextQ ==
    \/ \E q \in Filters, limit \in {NoLimit, 0, 1, 3}, skip \in {0, 1},
          pg \in {NoPaginate, Paginate, PaginateMaxOnly}, sort \in Sorts :
          Find(Params(IF q = <<>> THEN NoQuery ELSE TreeQuery(q), NoSelect, FALSE),
               limit, skip, pg, sort, "none")
    \/ Return

SpecQ == InitQ /\ [][NextQ]_vars

\* ======================================================================
\* Overlapping calls: every await of a handler is one store round-trip, and
\* the round-trips of different callers interleave
\* ======================================================================
\* the record the overlapping calls work on, created under the default TTL
TheId == AllKeys[1]

\* what the overlapping patch calls write: two disjoint sets of fields
ConcurrentPatches == {Rec(Absent, "b", Absent), Rec(Absent, Absent, "b")}

\* what the overlapping update calls write: a full record with its identity
ConcurrentUpdates == {Rec(TheId, "b", "b")}

\* caller c's call has returned with the given status
Done(c, status) == [calls EXCEPT ![c].pc = "done", ![c].status = status]

\* patch(id, data), first round-trip: `await this._get(id, params)`
PatchGet(c, id, d) ==
    /\ calls[c].pc = "idle"
    /\ LET o == GetPlain(store, id)
       IN  calls' = IF o.status = "ok"
                    THEN [calls EXCEPT ![c] = [id |-> id, key |-> o.key,
                                               op |-> "patch", entity |-> o.rec,
                                               status |-> "none", data |-> d,
                                               batch |-> <<>>, pc |-> "patchSave",
                                               first |-> 0, pending |-> {},
                                               failed |-> {}]]
                    ELSE [calls EXCEPT ![c] = [id |-> id, key |-> Null,
                                               op |-> "patch", entity |-> EmptyRec,
                                               status |-> "NotFound", data |-> d,
                                               batch |-> <<>>, pc |-> "done",
                                               first |-> 0, pending |-> {},
                                               failed |-> {}]]
    /\ UNCHANGED <<store, ttl, expiration, nextId, last>>

\* patch, second round-trip: Object.assign(entity, data) and
\* `await this.repository.save(entity)`, which writes the key whether or not
\* it still exists
PatchSave(c) ==
    /\ calls[c].pc = "patchSave"
    /\ LET entity == Assign(calls[c].entity, calls[c].data)
       IN  /\ store' = Save(store, calls[c].key, entity)
           /\ calls' = [Done(c, "ok") EXCEPT ![c].entity = entity]
    /\ UNCHANGED <<ttl, expiration, nextId, last>>

\* update(id, data), first round-trip: `await this.repository.fetch(id)` and
\* the test of the identity field
UpdateFetch(c, id, d) ==
    /\ calls[c].pc = "idle"
    /\ calls' = IF UpdateFound(store, id, NoQuery)
                THEN [calls EXCEPT ![c] = [id |-> id, key |-> id, op |-> "update",
                                           entity |-> Fetch(store, id),
                                           status |-> "none", data |-> d,
                                           batch |-> <<>>, pc |-> "updateSave",
                                           first |-> 0, pending |-> {}, failed |-> {}]]
                ELSE [calls EXCEPT ![c] = [id |-> id, key |-> Null, op |-> "update",
                                           entity |-> EmptyRec, status |-> "NotFound",
                                           data |-> d, batch |-> <<>>, pc |-> "done",
                                           first |-> 0, pending |-> {}, failed |-> {}]]
    /\ UNCHANGED <<store, ttl, expiration, nextId, last>>

\* update, second round-trip: `await this.repository.save(id, data)`
UpdateSave(c) ==
    /\ calls[c].pc = "updateSave"
    /\ store' = Save(store, calls[c].id, calls[c].data)
    /\ calls' = [Done(c, "ok") EXCEPT ![c].entity = calls[c].data]
    /\ UNCHANGED <<ttl, expiration, nextId, last>>

\* remove(id), first round-trip: `await this._get(id, params)`
RemoveGet(c, id) ==
    /\ calls[c].pc = "idle"
    /\ LET o == GetPlain(store, id)
       IN  calls' = IF o.status = "ok"
                    THEN [calls EXCEPT ![c] = [id |-> id, key |-> o.key,
                                               op |-> "remove", entity |-> o.rec,
                                               status |-> "none", data |-> EmptyRec,
                                               batch |-> <<>>, pc |-> "removeDel",
                                               first |-> 0, pending |-> {},
                                               failed |-> {}]]
                    ELSE [calls EXCEPT ![c] = [id |-> id, key |-> Null,
                                               op |-> "remove", entity |-> EmptyRec,
                                               status |-> "NotFound",
                                               data |-> EmptyRec, batch |-> <<>>,
                                               pc |-> "done", first |-> 0,
                                               pending |-> {}, failed |-> {}]]
    /\ UNCHANGED <<store, ttl, expiration, nextId, last>>

\* remove, second round-trip: `await this.repository.remove(id)`
RemoveDel(c) ==
    /\ calls[c].pc = "removeDel"
    /\ store' = Del(store, calls[c].id)
    /\ ttl' = Del(ttl, calls[c].id)
    /\ calls' = Done(c, "ok")
    /\ UNCHANGED <<expiration, nextId, last>>

\* one record, written by a single create under the default TTL
InitC ==
    /\ \E n \in {"a", "b"}, g \in {"a", Absent} : store = (TheId :> Rec(TheId, n, g))
    /\ expiration \in Expirations \ {0}
    /\ ttl = (TheId :> expiration)
    /\ nextId = 2
    /\ last = Idle
    /\ calls = [c \in Callers |-> NotCalling]

NextC ==
    \/ \E c \in Callers, d \in ConcurrentPatches : PatchGet(c, TheId, d)
    \/ \E c \in Callers : PatchSave(c)
    \/ \E c \in Callers, d \in ConcurrentUpdates : UpdateFetch(c, TheId, d)
    \/ \E c \in Callers : UpdateSave(c)
    \/ \E c \in Callers : RemoveGet(c, TheId)
    \/ \E c \in Callers : RemoveDel(c)
    \/ Tick

SpecC == InitC /\ [][NextC]_vars

\* ======================================================================
\* Overlapping creates: the save and the EXPIRE of a single create, and the
\* saves of the items of a batch, complete in any order
\* ======================================================================
\* what the overlapping creates write: without an identity, and with the
\* identity of a record another create may have written
ConcurrentPayloads == {Rec(Absent, "a", Absent), Rec(AllKeys[1], "b", "a")}

\* the key of item i of caller c's batch
ItemKey(c, i) == AllKeys[calls[c].first + i - 1]

\* CreateSave that writes under the identity the payload carries, if any
CreateSaveKeyedByIdentity(c, d) ==
    /\ calls[c].pc = "idle"
    /\ nextId <= Len(AllKeys)
    /\ LET uuid == AllKeys[nextId]
           rec  == WithId(uuid, d)
       IN  /\ store' = Save(store, rec[idField], rec)
           /\ calls' = [calls EXCEPT ![c] =
                           [NotCalling EXCEPT !.pc = IF expiration # 0 THEN "createExpire"
                                                     ELSE "done",
                                              !.op = "create", !.id = uuid, !.data = d,
                                              !.entity = rec, !.key = uuid,
                                              !.status = IF expiration # 0 THEN "none"
                                                         ELSE "ok"]]
    /\ nextId' = nextId + 1
    /\ UNCHANGED <<ttl, expiration, last>>

\* create(data), first round-trip: randomUUID() and
\* `await this.repository.save(uuid, {[idField]: uuid, ...data})`
CreateSave(c, d) ==
    /\ calls[c].pc = "idle"
    /\ nextId <= Len(AllKeys)
    /\ LET uuid == AllKeys[nextId]
           rec  == WithId(uuid, d)
       IN  /\ store' = Save(store, uuid, rec)
           /\ calls' = [calls EXCEPT ![c] =
                           [NotCalling EXCEPT !.pc = IF expiration # 0 THEN "createExpire"
                                                     ELSE "done",
                                              !.op = "create", !.id = uuid, !.data = d,
                                              !.entity = rec, !.key = uuid,
                                              !.status = IF expiration # 0 THEN "none"
                                                         ELSE "ok"]]
    /\ nextId' = nextId + 1
    /\ UNCHANGED <<ttl, expiration, last>>

\* create, second round-trip: `await this.expire(entity, this.expiration)`
CreateExpire(c) ==
    /\ calls[c].pc = "createExpire"
    /\ ttl' = StoreExpire(store, ttl,
                          ExpireKey([id |-> Null, rec |-> calls[c].entity,
                                     isRecord |-> TRUE]),
                          expiration)
    /\ calls' = Done(c, "ok")
    /\ UNCHANGED <<store, expiration, nextId, last>>

\* create(data[]): data.map runs every callback up to its await, so every
\* item draws its identifier and sends its save before any save completes
BatchStart(c, ds) ==
    /\ calls[c].pc = "idle"
    /\ nextId + Len(ds) - 1 <= Len(AllKeys)
    /\ calls' = [calls EXCEPT ![c] =
                    [NotCalling EXCEPT !.pc = "batchSave", !.op = "createMulti",
                                       !.batch = ds, !.first = nextId,
                                       !.pending = 1..Len(ds)]]
    /\ nextId' = nextId + Len(ds)
    /\ UNCHANGED <<store, ttl, expiration, last>>

\* the save of item i of a batch completes, or is rejected by the store.
\* Promise.all rejects at the first rejection and resolves when every save
\* has resolved; the saves still pending complete either way.  The batch
\* branch sends no EXPIRE
BatchItemSave(c, i, fault) ==
    /\ calls[c].pc = "batchSave"
    /\ i \in calls[c].pending
    /\ LET pending == calls[c].pending \ {i}
           failed  == IF fault = "none" THEN calls[c].failed ELSE calls[c].failed \cup {i}
       IN  /\ store' = IF fault = "none"
                       THEN Save(store, ItemKey(c, i), WithId(ItemKey(c, i), calls[c].batch[i]))
                       ELSE store
           /\ calls' = [calls EXCEPT ![c].pending = pending,
                                     ![c].failed = failed,
                                     ![c].pc = IF pending = {} THEN "done" ELSE "batchSave",
                                     ![c].status = IF failed # {} THEN "StoreError"
                                                   ELSE IF pending = {} THEN "ok"
                                                   ELSE "none"]
    /\ UNCHANGED <<ttl, expiration, nextId, last>>

InitK ==
    /\ store = << >>
    /\ ttl = << >>
    /\ expiration \in Expirations
    /\ nextId = 1
    /\ last = Idle
    /\ calls = [c \in Callers |-> NotCalling]

NextK ==
    \/ \E c \in Callers, d \in ConcurrentPayloads : CreateSave(c, d)
    \/ \E c \in Callers : CreateExpire(c)
    \/ \E c \in Callers, ds \in Batches : BatchStart(c, ds)
    \/ \E c \in Callers, i \in 1..MaxBatch, fault \in {"none", "store"} :
          BatchItemSave(c, i, fault)

SpecK == InitK /\ [][NextK]_vars

\* ======================================================================
\* Calls that fail: the query layer or the store raises during a call
\* ======================================================================
\* the params of the calls that fail: without and with a filter to translate
FaultParamSets == {NoParams, Params(QueryNameB, NoSelect, FALSE)}

\* a service that has created one record, which is still there or not
InitF ==
    /\ \E n \in {"a", "b"} :
          store \in {<< >>, (AllKeys[1] :> Rec(AllKeys[1], n, "a"))}
    /\ expiration \in Expirations
    /\ ttl = IF expiration # 0 THEN [k \in DOMAIN store |-> expiration] ELSE << >>
    /\ nextId = 2
    /\ last = Idle
    /\ calls = [c \in Callers |-> NotCalling]

NextF ==
    \/ \E d \in Payloads, p \in FaultParamSets, fault \in Faults \cup TtlFaults :
          Create(d, p, fault)
    \/ \E id \in IdsSeen, p \in FaultParamSets, fault \in Faults : Get(id, p, fault)
    \/ \E p \in FaultParamSets, limit \in {NoLimit, 0}, skip \in {0, 1},
          pg \in {NoPaginate, Paginate}, fault \in Faults :
          Find(p, limit, skip, pg, NoSort, fault)
    \/ \E id \in IdsSeen \cup {Null}, d \in Payloads, p \in FaultParamSets,
          fault \in Faults \cup WriteFaults : Update(id, d, p, fault)
    \/ \E id \in IdsSeen \cup {Null}, d \in PatchPayloads, p \in FaultParamSets,
          fault \in Faults \cup WriteFaults : Patch(id, d, p, fault)
    \/ \E id \in IdsSeen \cup {Null}, p \in FaultParamSets,
          fault \in Faults \cup WriteFaults : Remove(id, p, fault)
    \/ Return

SpecF == InitF /\ [][NextF]_vars

\* ======================================================================
\* Properties
\* ======================================================================

\* the call that just completed is a successful `op`
Did(op) == last.op = op /\ last.status = "ok"

\* the same, of the step being taken
Does(op) == last'.op = op /\ last'.status = "ok"

\* C1: for every payload d without the identity field, once create(d) has
\* returned r, get(r[idField]) with no filter succeeds and returns d plus the
\* identity field set to the generated identifier.
C1_CreateThenGet ==
    (Did("create") /\ last.data[idField] = Absent) =>
        LET g == GetPlain(store, last.ret[idField])
        IN  /\ last.ret[idField] = last.id
            /\ g.status = "ok"
            /\ g.rec = [last.data EXCEPT ![idField] = last.id]

\* a create of a payload with two data fields and no identity, under $select
C1_Witness ==
    /\ Did("create")
    /\ last.data = Rec(Absent, "b", "a")
    /\ last.params.select.on
    /\ GetPlain(store, last.ret[idField]).rec = Rec(last.id, "b", "a")

\* C2: under a default TTL of T seconds, the record a single create wrote is
\* readable by get as soon as create returns and is set to expire T seconds
\* later: get(r[idField]) returns the created document and the key it was
\* written under has exactly T seconds to live.
C2_DefaultTtlOnCreate ==
    (Did("create") /\ last.secs # 0) =>
        /\ GetPlain(store, last.ret[idField]).status = "ok"
        /\ GetPlain(store, last.ret[idField]).rec = store[last.id]
        /\ last.id \in DOMAIN ttl
        /\ ttl[last.id] = last.secs

\* C3: under a default TTL, a permitted batch create of N items leaves all N
\* documents in the store, each with the default TTL.
C3_BatchGetsDefaultTtl ==
    (Did("createMulti") /\ last.secs # 0) =>
        \A i \in 1..Len(last.rets) :
            LET k == last.rets[i][idField]
            IN  /\ GetPlain(store, k).status = "ok"
                /\ k \in DOMAIN ttl
                /\ ttl[k] = last.secs

\* C4: update and patch called without a truthy refreshExpiration leave every
\* TTL exactly as it was: not re-set, not cleared, not extended, so the
\* record still disappears at its original deadline.
C4_NoRefreshKeepsTtl ==
    [][(last'.op \in {"update", "patch"} /\ ~last'.params.refresh) => ttl' = ttl]_vars

\* an update or patch without refresh of a record whose TTL has been running
C4_Witness ==
    /\ (Did("update") \/ Did("patch"))
    /\ ~last.params.refresh
    /\ last.id \in DOMAIN ttl
    /\ expiration # 0
    /\ ttl[last.id] < expiration

\* C5: update and patch called with refreshExpiration: true set the record's
\* TTL to the adapter's current default, counted from the mutation.
C5_RefreshResetsTtl ==
    [][((Does("update") \/ Does("patch")) /\ last'.params.refresh /\ expiration # 0)
          => (last'.id \in DOMAIN ttl' /\ ttl'[last'.id] = expiration)]_vars

\* C6: with no default TTL configured, create, get, find, update and patch
\* put a TTL on no record; only expire does.
C6_NoDefaultNoTtl ==
    [][(expiration = 0
          /\ last'.op \in {"create", "createMulti", "get", "find", "update", "patch"})
          => ttl' = ttl]_vars

\* a create under no default TTL that left its record without a TTL
C6_Witness ==
    /\ Did("create")
    /\ expiration = 0
    /\ last.id \in DOMAIN store
    /\ last.id \notin DOMAIN ttl

\* the identity expire(x, s) is called for: x itself, or x's identity field
ExpireTarget(c) == IF c.byRecord THEN c.data[idField] ELSE c.id

\* C7: expire(x, s) has the same effect for a bare identity and for a record
\* carrying it: the TTL of that one record becomes exactly s, no other TTL
\* and no document changes.
C7_ExpireSetsExactly ==
    [][last'.op = "expire" =>
          /\ store' = store
          /\ ttl' = IF ExpireTarget(last') \in DOMAIN store
                    THEN Put(ttl, ExpireTarget(last'), last'.secs)
                    ELSE ttl]_vars

\* expire called with a record shortened that record's TTL while another
\* record kept its own
C7_Witness ==
    /\ Did("expire")
    /\ last.byRecord
    /\ ExpireTarget(last) \in DOMAIN ttl
    /\ ttl[ExpireTarget(last)] = last.secs
    /\ \E k \in DOMAIN ttl : k # ExpireTarget(last) /\ ttl[k] # last.secs

\* C8: patch(id, partialData) without $select overwrites exactly the fields
\* named in partialData and retains every other field, in the returned
\* record and in the record a subsequent get(id) reads.
C8_PatchMerges ==
    [][(Does("patch") /\ ~last'.params.select.on) =>
          /\ last'.ret = Assign(last'.before, last'.data)
          /\ GetPlain(store', last'.id).status = "ok"
          /\ GetPlain(store', last'.id).rec = last'.ret]_vars

\* C9: update(id, data) replaces the stored record in full: afterwards the
\* document under id is data, with no field of the previous version that
\* data does not contain.
C9_UpdateReplaces ==
    [][Does("update") =>
          /\ last'.id \in DOMAIN store'
          /\ store'[last'.id] = last'.data]_vars

\* an update whose data lacks a field the previous version had
C9_Witness ==
    /\ Did("update")
    /\ last.before["age"] # Absent
    /\ last.data["age"] = Absent
    /\ store[last.id]["age"] = Absent

\* C10: after any successful update(id, data) or patch(id, data), get(id)
\* succeeds and returns a record whose identity field equals id.
C10_IdentityPreserved ==
    [][(Does("update") \/ Does("patch")) =>
          /\ GetPlain(store', last'.id).status = "ok"
          /\ GetPlain(store', last'.id).rec[idField] = last'.id]_vars

\* C11: create always assigns the adapter-generated identity: whatever the
\* payload carries in the identity field, the identity field of the returned
\* record and of the stored record is the fresh identifier the record was
\* written under (single create and every item of a batch create).
C11_CreateAssignsIdentity ==
    /\ Did("create") =>
          /\ last.ret[idField] = last.id
          /\ last.id \in DOMAIN store
          /\ store[last.id][idField] = last.id
    /\ Did("createMulti") =>
          \A i \in 1..Len(last.rets) :
              LET k == AllKeys[nextId - Len(last.rets) + i - 1]
              IN  /\ last.rets[i][idField] = k
                  /\ k \in DOMAIN store
                  /\ store[k][idField] = k

\* C12: remove(id, params) with a non-null id that resolves returns the record
\* get(id, params) would have returned, deletes that record and no other, and
\* a later get(id) is NotFound; when id does not resolve it fails with
\* NotFound and deletes nothing.
C12_RemoveDeletesResolved ==
    [][(last'.op = "remove" /\ last'.id # Null) =>
          LET outs == GetOutcomes(store, last'.id, last'.params.query, last'.params.select)
          IN  IF \E o \in outs : o.status = "ok"
              THEN /\ last'.status = "ok"
                   /\ \E o \in outs :
                         /\ o.status = "ok"
                         /\ last'.ret = o.rec
                         /\ store' = Del(store, o.key)
                   /\ GetPlain(store', last'.id).status = "NotFound"
              ELSE /\ last'.status = "NotFound"
                   /\ store' = store]_vars

\* C13: get never fails with an error kind other than NotFound: a missing
\* key, a fetched record whose identity field is absent or falsy, a
\* query-construction error and a store or transport error during the lookup
\* all surface as NotFound.
C13_GetOnlyNotFound ==
    [][last'.op = "get" =>
          /\ last'.status \in {"ok", "NotFound"}
          /\ last'.fault # "none" => last'.status = "NotFound"
          /\ (last'.params.query.kind = "none"
                /\ ~Truthy(Fetch(store, last'.id)[idField]))
                => last'.status = "NotFound"]_vars

\* the store failed during the lookup of a record that is there, and the
\* caller was told NotFound
C13_Witness ==
    /\ last.op = "get"
    /\ last.fault = "store"
    /\ last.status = "NotFound"
    /\ last.id \in DOMAIN store
    /\ Truthy(store[last.id][idField])

\* C14: get(id, filter) with a non-empty filter returns the record with
\* identity id if and only if that record also satisfies the filter;
\* otherwise (no such record, or it does not satisfy the filter) it fails with
\* NotFound, and it never returns a different record.
C14_GetWithFilter ==
    [][(last'.op = "get" /\ last'.params.query.kind # "none" /\ last'.fault = "none") =>
          LET g == GetPlain(store, last'.id)
          IN  IF g.status = "ok" /\ Matches(g.rec, last'.params.query)
              THEN /\ last'.status = "ok"
                   /\ last'.ret = Select(g.rec, last'.params.select)
              ELSE last'.status = "NotFound"]_vars

\* C15: the operations that require an id reject a null id and leave the
\* store unchanged, whatever the query and the store contents: patch(null)
\* and remove(null) fail with MethodNotAllowed, update(null) with BadRequest.
C15_NullIdRejected ==
    [][(last'.op \in {"patch", "remove", "update"} /\ last'.id = Null) =>
          /\ last'.status = IF last'.op = "update" THEN "BadRequest" ELSE "MethodNotAllowed"
          /\ store' = store
          /\ ttl' = ttl]_vars

\* remove(null) with a filter that matches a stored record was rejected
C15_Witness ==
    /\ last.op = "remove"
    /\ last.id = Null
    /\ last.status = "MethodNotAllowed"
    /\ last.params.query.kind # "none"
    /\ \E k \in DOMAIN store : Matches(store[k], last.params.query)

\* C16: create with a list of records when 'create' is not in the multi
\* allow-list fails with MethodNotAllowed, writes no record of the list and
\* consumes no identity; with 'create' allow-listed the call writes every
\* item of the list.
C16_MultiCreateGuard ==
    [][last'.op = "createMulti" =>
          IF ~last'.allowed
          THEN /\ last'.status = "MethodNotAllowed"
               /\ store' = store
               /\ ttl' = ttl
               /\ nextId' = nextId
          ELSE /\ last'.status = "ok"
               /\ Cardinality(DOMAIN store') = Cardinality(DOMAIN store) + Len(last'.batch)
               /\ \A i \in 1..Len(last'.batch) :
                     \E k \in (DOMAIN store') \ (DOMAIN store) :
                        /\ store'[k]["name"] = last'.batch[i]["name"]
                        /\ store'[k]["age"] = last'.batch[i]["age"]]_vars

\* a list of two records was rejected while two identities were still free
C16_Witness ==
    /\ last.op = "createMulti"
    /\ ~last.allowed
    /\ last.status = "MethodNotAllowed"
    /\ Len(last.batch) = 2
    /\ nextId = 1

\* C17: with pagination inactive, find with limit exactly 0 returns an empty
\* list without error, for every filter, every skip (zero or positive) and
\* every store content.
C17_LimitZeroIsEmpty ==
    [][(last'.op = "find" /\ ~last'.envelope /\ last'.limit = 0) =>
          /\ last'.status = "ok"
          /\ last'.rets = <<>>]_vars

\* ret holds exactly the fields of rec that are in S, plus rec's identity field
Projected(ret, rec, S) ==
    \A f \in Fields : ret[f] = IF f \in S \cup {idField} THEN rec[f] ELSE Absent

\* C18: with a field whitelist S given as $select, every record returned by
\* get, single create, batch create, update and non-paginated find contains
\* exactly the record's fields that are in S plus the identity field, which is
\* kept even when it is not in S.
C18_SelectProjects ==
    [][(last'.status = "ok" /\ last'.params.select.on) =>
          LET S == last'.params.select.fields
              q == last'.params.query
          IN  /\ last'.op = "get" =>
                    \E k \in DOMAIN store :
                       /\ (q.kind = "none" => k = last'.id)
                       /\ Matches(store[k], q)
                       /\ Projected(last'.ret, store[k], S)
              /\ last'.op \in {"create", "update"} =>
                    Projected(last'.ret, store'[last'.id], S)
              /\ last'.op = "createMulti" =>
                    \A i \in 1..Len(last'.rets) :
                       Projected(last'.rets[i], store'[AllKeys[nextId + i - 1]], S)
              /\ (last'.op = "find" /\ ~last'.envelope) =>
                    \A i \in 1..Len(last'.rets) :
                       \E k \in DOMAIN store :
                          /\ Matches(store[k], q)
                          /\ Projected(last'.rets[i], store[k], S)]_vars

\* a find under $select: ['name'] returned a record without its stored age
\* and with its identity
C18_Witness ==
    /\ Did("find")
    /\ ~last.envelope
    /\ last.params.select = SelectName
    /\ \E i \in 1..Len(last.rets), k \in DOMAIN store :
          /\ store[k]["age"] # Absent
          /\ last.rets[i] = Rec(store[k][idField], store[k]["name"], Absent)
          /\ last.rets[i][idField] # Absent

\* C19: field selection applies to find in both pagination modes: when
\* pagination is active and $select = S is given, every record in the
\* envelope's data list contains only fields of S plus the identity field.
C19_SelectUnderPagination ==
    [][(last'.op = "find" /\ last'.envelope /\ last'.params.select.on) =>
          \A i \in 1..Len(last'.rets) :
             \A f \in Fields :
                last'.rets[i][f] # Absent => f \in last'.params.select.fields \cup {idField}]_vars

\* C20: a filter that uses a membership operator ($in or $nin) never produces
\* a result set: find, get and update with such a filter fail with a
\* 'not implemented' error instead of translating the operator into another
\* predicate such as equality.
C20_MembershipNotImplemented ==
    [][(/\ last'.op \in {"find", "get", "update"}
        /\ last'.params.query.kind \in {"in", "nin"}
        /\ (last'.id # Null \/ last'.op = "find")
        /\ last'.fault = "none")
          => last'.status = "NotImplemented"]_vars

\* ------------------------------------------------------------ queries
RECURSIVE Satisfies(_, _)
\* the filter evaluated directly on a document: sibling keys are conjoined,
\* $or is the disjunction of its branches, $and the conjunction
Satisfies(doc, query) ==
    \A i \in 1..Len(query) :
        LET e == query[i]
        IN  CASE e.k = "cond" -> CondHolds(doc, e)
              [] e.k = "or"  -> \E j \in 1..Len(e.items) : Satisfies(doc, e.items[j])
              [] e.k = "and" -> \A j \in 1..Len(e.items) : Satisfies(doc, e.items[j])

\* the records in a result list, as a set
Returned(c) == {c.rets[i] : i \in 1..Len(c.rets)}

\* C21: for every filter tree built from equalities, comparisons, $and and
\* $or (also $or next to sibling conditions, $or inside $and, any key
\* order), find returns exactly the stored records that satisfy the filter
\* evaluated directly.
C21_FindMatchesFilter ==
    [][(last'.op = "find" /\ last'.params.query.kind = "tree"
          /\ ~last'.paginate.on /\ last'.requested = NoLimit /\ last'.skip = 0) =>
          Returned(last') =
              {store[k] : k \in {x \in DOMAIN store :
                                   Satisfies(store[x], last'.params.query.entries)}}]_vars

\* the documents the query matches, whatever the window
Matching(c) == {k \in DOMAIN store : Matches(store[k], c.params.query)}

\* rets is the window [skip, skip + limit) of the sequence all
IsWindow(rets, all, skip, limit) ==
    /\ Len(rets) = (IF Len(all) - skip < 0 THEN 0
                    ELSE IF Len(all) - skip < limit THEN Len(all) - skip ELSE limit)
    /\ \A i \in 1..Len(rets) : rets[i] = all[skip + i]

\* C22: find returns the envelope {total, limit, skip, data} exactly when a
\* pagination option with a default page size is in force, and a plain list
\* otherwise; in the envelope total is the number of all matching records,
\* whatever limit and skip, data is the matching records at positions
\* [skip, skip + limit), and limit is the requested limit (the default when
\* none is requested) capped by the configured maximum.
C22_Envelope ==
    [][last'.op = "find" =>
          /\ last'.envelope <=> (last'.paginate.on /\ last'.paginate.default # 0)
          /\ last'.envelope =>
                /\ last'.total = Cardinality(Matching(last'))
                /\ last'.limit =
                      Min(IF last'.requested # NoLimit THEN last'.requested
                          ELSE last'.paginate.default,
                          last'.paginate.max)
                /\ \E all \in SearchResults(store, last'.params.query, last'.sort) :
                      IsWindow(last'.rets, all, last'.skip, last'.limit)]_vars

\* a page of one record out of two matching ones, the requested limit of 3
\* capped to the maximum of 2
C22_Witness ==
    /\ Did("find")
    /\ last.envelope
    /\ last.requested = 3
    /\ last.limit = 2
    /\ last.skip = 1
    /\ last.total = 2
    /\ Len(last.rets) = 1

\* C23: with pagination inactive and a non-zero limit or no limit, find
\* returns the window of the matching records that starts at skip and holds
\* at most limit records (unbounded without limit): limit only gives the
\* first limit records, limit and skip the page starting at skip, skip only
\* every record from skip onward, neither gives all matching records.
C23_WindowWithoutPagination ==
    [][(last'.op = "find" /\ ~last'.envelope /\ last'.requested # 0) =>
          \E all \in SearchResults(store, last'.params.query, last'.sort) :
             IsWindow(last'.rets, all, last'.skip,
                      IF last'.requested = NoLimit THEN Len(all) ELSE last'.requested)]_vars

\* C24: a not-equal filter {f: {$ne: v}} makes find return exactly the stored
\* records whose field f differs from v: none with f = v is returned, none
\* with another value of f is left out.
C24_NotEqual ==
    [][(/\ last'.op = "find"
        /\ last'.params.query.kind = "tree"
        /\ Len(last'.params.query.entries) = 1
        /\ last'.params.query.entries[1].op = "ne"
        /\ ~last'.paginate.on /\ last'.requested = NoLimit /\ last'.skip = 0) =>
          LET e == last'.params.query.entries[1]
          IN  Returned(last') =
                 {store[k] : k \in {x \in DOMAIN store : store[x][e.field] # e.value}}]_vars

\* of two people named a and b, {name: {$ne: 'a'}} returned exactly b
C24_Witness ==
    /\ Did("find")
    /\ last.params.query = TreeQuery(<<Cond("name", "ne", "a")>>)
    /\ ~last.paginate.on /\ last.requested = NoLimit /\ last.skip = 0
    /\ \E k \in DOMAIN store : store[k]["name"] = "a"
    /\ Len(last.rets) = 1
    /\ last.rets[1]["name"] = "b"

\* C25: a sort directive orders the find result by the named field, ascending
\* when the direction is 1 and descending for any other value, in both
\* pagination modes; sorting changes only the order, never which records
\* match nor the reported total.
C25_SortOrders ==
    [][(last'.op = "find" /\ last'.sort.on) =>
          LET f == last'.sort.field
              docs == {store[k] : k \in Matching(last')}
              Before(a, b) == IF last'.sort.dir = 1
                              THEN Rank(a[f]) <= Rank(b[f])
                              ELSE Rank(a[f]) >= Rank(b[f])
          IN  /\ \A i, j \in 1..Len(last'.rets) :
                    i < j => Before(last'.rets[i], last'.rets[j])
              /\ Returned(last') \subseteq docs
              /\ last'.skip = 0 =>
                    \A r \in Returned(last'), d \in docs \ Returned(last') : Before(r, d)
              /\ last'.envelope => last'.total = Cardinality(docs)
              /\ (~last'.paginate.on /\ last'.requested = NoLimit /\ last'.skip = 0)
                    => Returned(last') = docs]_vars

\* two people of different age came back oldest first under $sort: {age: -1}
C25_Witness ==
    /\ Did("find")
    /\ last.sort = SortBy("age", -1)
    /\ Len(last.rets) = 2
    /\ last.rets[1]["age"] = "b"
    /\ last.rets[2]["age"] = "a"
    /\ last.rets[1][idField] = "k2"

\* C26: field selection on patch affects only the returned record: after
\* patch(id, partialData) with $select = S the record stored under id still
\* holds every field it had before that partialData does not name, also the
\* fields outside S.
C26_PatchSelectKeepsStored ==
    [][(Does("patch") /\ last'.params.select.on) =>
          /\ last'.id \in DOMAIN store'
          /\ \A f \in Fields :
                last'.data[f] = Absent => store'[last'.id][f] = store[last'.id][f]]_vars

\* C29: in a single create under a default TTL, the time-to-live command is
\* issued for exactly the key the record was just written under, for every
\* payload (also one that carries its own identity value) and every $select:
\* that key gets the default TTL and no other TTL changes.
C29_TtlOnWrittenKey ==
    [][(Does("create") /\ expiration # 0) =>
          ttl' = Put(ttl, last'.id, expiration)]_vars

\* ------------------------------------------------------ overlapping calls
\* C27: a removed record stays removed: once remove(id) has returned
\* successfully, no patch or update of the same id that started before or
\* during the remove makes a later get(id) succeed again, under any
\* interleaving of their store round-trips.
C27_RemovedStaysRemoved ==
    (\E c \in Callers : /\ calls[c].op = "remove"
                        /\ calls[c].pc = "done"
                        /\ calls[c].status = "ok")
        => GetPlain(store, TheId).status = "NotFound"

\* C28: with a default TTL configured, no expire call and no refreshing
\* mutation, every record a single create wrote is eventually absent from
\* the store however patch and update calls interleave with the store's TTL
\* expiry: no patch or update leaves behind a record without a TTL, which
\* would stay for ever.
C28_NoRecordWithoutTtl ==
    (\A c \in Callers : calls[c].op \in {"none", "patch", "update"})
        => \A k \in DOMAIN store : k \in DOMAIN ttl

\* C30: two concurrent patch calls on the same record that write disjoint
\* sets of fields both take effect: once both have returned successfully
\* the stored record carries the new values of both, under every
\* interleaving of their get and save round-trips.
C30_BothPatchesTakeEffect ==
    (/\ \A c \in Callers : /\ calls[c].op = "patch"
                           /\ calls[c].pc = "done"
                           /\ calls[c].status = "ok"
     /\ \A f \in Fields : \A c, e \in Callers :
           (c # e /\ calls[c].data[f] # Absent) => calls[e].data[f] = Absent)
        => /\ TheId \in DOMAIN store
           /\ \A c \in Callers : \A f \in Fields :
                 calls[c].data[f] # Absent => store[TheId][f] = calls[c].data[f]

\* C34: find with limit exactly 0 sends no request to the store, in either
\* pagination mode and for every skip: neither a page request, nor a
\* return-all request, nor a count request.
C34_LimitZeroSendsNothing ==
    [][(last'.op = "find" /\ last'.requested = 0) => last'.sent = {}]_vars

\* C38: get and find are read-only: for every id, filter, $select, limit and
\* skip, and whether they succeed or fail, they leave the contents and the
\* TTL of every stored record unchanged; field selection strips fields only
\* from the returned copies.
C38_ReadsChangeNothing ==
    [][last'.op \in {"get", "find"} => (store' = store /\ ttl' = ttl)]_vars

\* a get under $select returned a copy without a field the stored record,
\* whose TTL is running, still has
C38_Witness ==
    /\ Did("get")
    /\ last.params.select.on
    /\ last.id \in DOMAIN store
    /\ last.id \in DOMAIN ttl
    /\ store[last.id]["age"] # Absent
    /\ last.ret["age"] = Absent

\* C35: assigning the default TTL at runtime (service.expiration = N) is not
\* retroactive: it changes no record and no TTL already in the store; and the
\* value in force is the TTL every later create gives its record and every
\* later refreshed update or patch gives the record it wrote.
C35_RuntimeTtlNotRetroactive ==
    [][/\ expiration' # expiration => (ttl' = ttl /\ store' = store)
       /\ (Does("create") /\ last'.data[idField] = Absent /\ expiration # 0) =>
              (last'.id \in DOMAIN ttl' /\ ttl'[last'.id] = expiration)
       /\ (/\ last'.op \in {"update", "patch"}
           /\ last'.status = "ok"
           /\ last'.params.refresh
           /\ expiration # 0) =>
              (last'.id \in DOMAIN ttl' /\ ttl'[last'.id] = expiration)]_vars

\* get(id, params) fails on this store: the lookup raises, or finds nothing
GetFails(st, id, p, fault) ==
    \/ fault \in {"query", "store"}
    \/ \A o \in GetOutcomes(st, id, p.query, p.select) : o.status # "ok"

\* C31: update verifies existence exactly as get does: for every store
\* state, id and filter for which get(id, params) fails, also because the
\* lookup itself raised a store or query error, update(id, data, params)
\* fails with NotFound and leaves the store unchanged; it writes only when
\* get would have succeeded.
C31_UpdateChecksAsGet ==
    [][(last'.op = "update" /\ last'.id # Null) =>
          /\ GetFails(store, last'.id, last'.params, last'.fault) =>
                (last'.status = "NotFound" /\ store' = store /\ ttl' = ttl)
          /\ store' # store =>
                ~GetFails(store, last'.id, last'.params, last'.fault)]_vars

\* C32: when applying the default TTL fails after a single create has
\* written the record, create reports the failure to the caller, the record
\* stays in the store as written and without any TTL, and the adapter neither
\* sends the TTL command again nor deletes the record.
C32_TtlFailureLeavesRecord ==
    [][(last'.op = "create" /\ last'.fault = "ttl") =>
          /\ last'.status # "ok"
          /\ last'.error = Raised("ttl")
          /\ last'.id \in DOMAIN store'
          /\ store' = Save(store, last'.id, WithId(last'.id, last'.data))
          /\ last'.id \notin DOMAIN ttl'
          /\ ttl' = ttl]_vars

\* a create under a default TTL failed at the TTL command: its record is in
\* the store and has no TTL
C32_Witness ==
    /\ last.op = "create"
    /\ last.fault = "ttl"
    /\ last.status = "StoreError"
    /\ expiration # 0
    /\ last.id \in DOMAIN store
    /\ last.id \notin DOMAIN ttl

\* C37: outside get, a failure raised by the store's query layer during
\* find, create, update, patch or remove, also while the filter is
\* translated, reaches the caller as a general error carrying the name and
\* the message of the original error; every other exception reaches the
\* caller unchanged.
C37_ErrorPolicy ==
    [][(last'.op \in {"find", "create", "update", "patch", "remove"}
           /\ last'.fault # "none") =>
          last'.error = IF last'.fault = "query"
                        THEN [name |-> Raised("query").name, class |-> "GeneralError",
                              message |-> Raised("query").message]
                        ELSE Raised(last'.fault)]_vars

\* C33: in a batch create the items are processed independently: a store
\* failure on one item is reported to the caller, and every other item is
\* written and, under a default TTL, set to expire, in whatever order the
\* per-item store calls complete.
C33_BatchItemsIndependent ==
    \A c \in Callers :
        (calls[c].op = "createMulti" /\ calls[c].pc = "done" /\ calls[c].failed # {}) =>
            /\ calls[c].status # "ok"
            /\ \A i \in (1..Len(calls[c].batch)) \ calls[c].failed :
                  /\ ItemKey(c, i) \in DOMAIN store
                  /\ store[ItemKey(c, i)] = WithId(ItemKey(c, i), calls[c].batch[i])
                  /\ expiration # 0 =>
                        (ItemKey(c, i) \in DOMAIN ttl /\ ttl[ItemKey(c, i)] = expiration)

\* C36: concurrent create calls never collide on identity: under every
\* interleaving of single and batch creates, each write of a created record
\* goes to a key no record is stored under, so it overwrites nothing and the
\* number of stored records grows by one per item written.
C36_CreatesNeverCollide ==
    [][store' # store =>
          \E k \in Keys \ DOMAIN store :
              /\ DOMAIN store' = (DOMAIN store) \cup {k}
              /\ \A x \in DOMAIN store : store'[x] = store[x]]_vars

\* two overlapping single creates have both returned, the second with a
\* payload that carries the identity of the first one's record: two records
\* are stored
C36_Witness ==
    /\ \A c \in Callers : calls[c].op = "create" /\ calls[c].pc = "done"
    /\ \E c \in Callers : calls[c].data[idField] = AllKeys[1] /\ calls[c].key = AllKeys[2]
    /\ Cardinality(DOMAIN store) = 2
====
